---- MODULE Spec2Model ----
(***************************************************************************)
(* Model of the SaaS security agent (saas_project/agent/agent.py), the     *)
(* ingest Lambda (lambda-functions/ingest), the fleet aggregation Lambda   *)
(* (lambda-functions/get-cis-results) and the local backend                *)
(* (saas_project/backend/main.py).                                         *)
(*                                                                         *)
(* Text produced by external commands is modelled as a sequence of tokens  *)
(* (whitespace-separated words); Python's None is a distinct value.        *)
(***************************************************************************)
EXTENDS Integers, Sequences, FiniteSets, TLC

VARIABLES
    \* ---- agent (agent.py) ----
    agent_pc,      \* the rule run_all_checks evaluates next, "done" or "raised"
    checks,        \* the list run_all_checks has built so far
    last_probe,    \* how the command primitive fared for the rule that ran last
    ingest_url,    \* where the agent posts: "api_gateway" or "backend"
    \* ---- ingest Lambda and its DynamoDB table ----
    table,         \* the DynamoDB table: hostname -> item
    clock,         \* datetime.utcnow()
    inv,           \* per concurrent Lambda invocation: its position and locals
    response,      \* <<>> or <<r>>, r the last response of the ingest Lambda
    \* ---- local backend (main.py) ----
    DB,            \* the in-memory dict: hostname -> AgentPayload
    DB_keys,       \* the keys of DB in the order the dict holds them (insertion order)
    backend_status,\* the HTTP status of the backend's last POST /ingest (0: none)
    \* ---- reading endpoints (get-cis-results, get-hosts, get-host-details, backend GETs) ----
    report         \* <<>> or <<r>>, r the response of the last read request

vars == <<agent_pc, checks, last_probe, ingest_url, table, clock, inv, response, DB,
          DB_keys, backend_status, report>>

agentVars == <<agent_pc, checks, last_probe>>
ingestVars == <<table, clock, inv, response>>
backendVars == <<DB, DB_keys, backend_status>>

(***************************************************************************)
(* Python values                                                           *)
(***************************************************************************)
\* None, as returned for stdout by _run_shell_command on a fault
None == [isNone |-> TRUE, toks |-> <<>>]
Str(toks) == [isNone |-> FALSE, toks |-> toks]

\* bool(x) for x a str or None
Truthy(x) == ~x.isNone /\ x.toks # <<>>

\* str.lower() on one token
LowerTok(t) ==
    CASE t = "Yes" -> "yes"
      [] t = "YES" -> "yes"
      [] t = "True" -> "true"
      [] t = "AutomaticLoginEnable=True" -> "automaticloginenable=true"
      [] t = "PermitRootLogin" -> "permitrootlogin"
      [] t = "AutomaticLoginEnable" -> "automaticloginenable"
      [] OTHER -> t

Lower(x) == [isNone |-> x.isNone, toks |-> [i \in DOMAIN x.toks |-> LowerTok(x.toks[i])]]

\* the words that contain another word of the model as a proper substring
SubstringPairs ==
    { <<"inactive", "active">>, <<"reactivating", "active">>,
      <<"AutomaticLoginEnable=true", "true">>, <<"automaticloginenable=true", "true">>,
      <<"prohibit-password", "password">>, <<"yesterday", "yes">> }

TokContains(tok, needle) == tok = needle \/ <<tok, needle>> \in SubstringPairs

\* "needle in text" for a str text (callers guard None: it raises TypeError);
\* needle is a sequence of words, matched on consecutive words of text
Contains(text, needle) ==
    \E s \in 0..(Len(text.toks) - Len(needle)) :
        \A k \in 1..Len(needle) :
            IF Len(needle) = 1 THEN TokContains(text.toks[s + k], needle[k])
            ELSE text.toks[s + k] = needle[k]

(***************************************************************************)
(* _run_shell_command: the subprocess either completes with stdout/stderr, *)
(* exceeds the timeout, or subprocess.run raises something else.           *)
(***************************************************************************)
Completed(out, err) == [kind |-> "ok", out |-> out, err |-> err]
TimedOut == [kind |-> "timeout", out |-> <<>>, err |-> <<>>]
Errored == [kind |-> "error", out |-> <<>>, err |-> <<"[Errno", "12]", "Cannot", "allocate", "memory">>]

Outcomes(outs) == {Completed(o, <<>>) : o \in outs} \cup {TimedOut, Errored}

\* timeout is the number of seconds, as it is formatted into the message
_run_shell_command(proc, timeout) ==
    CASE proc.kind = "ok" -> [stdout |-> Str(proc.out), stderr |-> Str(proc.err)]
      [] proc.kind = "timeout" ->
            [stdout |-> None,
             stderr |-> Str(<<"Command", "timed", "out", "after", timeout, "seconds.">>)]
      [] OTHER -> [stdout |-> None, stderr |-> Str(proc.err)]

DefaultTimeout == "60"

\* how the probes of one rule fared: "none" faulted, "some" or "all" of those run
ProbeClass(procs) ==
    LET bad == {i \in DOMAIN procs : procs[i].kind # "ok"} IN
    IF procs = <<>> \/ bad = {} THEN "none"
    ELSE IF bad = DOMAIN procs THEN "all" ELSE "some"

(***************************************************************************)
(* Check rules.  Each returns [exc, res, probes]: exc is TRUE when the     *)
(* rule raises (TypeError on "x in None"); probes lists the commands run.  *)
(***************************************************************************)
Result(check, status, evidence) ==
    [check |-> check, status |-> status, evidence |-> evidence]

NoResult == Result("", "", <<>>)

Ret(res, procs) == [exc |-> FALSE, res |-> res, probes |-> ProbeClass(procs)]
Raise(procs) == [exc |-> TRUE, res |-> NoResult, probes |-> ProbeClass(procs)]

SshdConfig == "/etc/ssh/sshd_config"

check_root_login(exists, grep) ==
    LET name == "CIS 5.2.4 SSH Root Login"
        output == _run_shell_command(grep, DefaultTimeout).stdout
    IN  IF ~exists
        THEN Ret(Result(name, "fail", <<"SSH config not found at", SshdConfig>>), <<>>)
        ELSE IF Truthy(output) /\ Contains(Lower(output), <<"yes">>)
        THEN Ret(Result(name, "fail", <<"Root login is enabled in", SshdConfig>>), <<grep>>)
        ELSE Ret(Result(name, "pass", <<"Root login is properly disabled">>), <<grep>>)

check_firewall_enabled(ufw, firewalld) ==
    LET name == "CIS 3.5.x Firewall Enabled"
        out1 == _run_shell_command(ufw, DefaultTimeout).stdout
        out2 == _run_shell_command(firewalld, DefaultTimeout).stdout
    IN  IF Truthy(out1) /\ Contains(out1, <<"Status:", "active">>)
        THEN Ret(Result(name, "pass", <<"ufw firewall is active">>), <<ufw>>)
        ELSE IF out2 = Str(<<"active">>)
        THEN Ret(Result(name, "pass", <<"firewalld is active">>), <<ufw, firewalld>>)
        ELSE Ret(Result(name, "fail", <<"No active firewall detected">>), <<ufw, firewalld>>)

check_auditd_running(systemctl) ==
    LET name == "CIS 4.1.1.2 Auditd Service"
        output == _run_shell_command(systemctl, DefaultTimeout).stdout
    IN  IF output.isNone
        THEN Raise(<<systemctl>>)     \* "active" in None: TypeError
        ELSE IF Contains(output, <<"active">>) /\ Contains(output, <<"enabled">>)
        THEN Ret(Result(name, "pass", <<"auditd is running and enabled">>), <<systemctl>>)
        ELSE Ret(Result(name, "fail", <<"auditd is not properly configured">>), <<systemctl>>)

check_apparmor_enabled(apparmor, sestatus) ==
    LET out1 == _run_shell_command(apparmor, DefaultTimeout).stdout
        out2 == _run_shell_command(sestatus, DefaultTimeout).stdout
    IN  IF out1 = Str(<<"active">>)
        THEN Ret(Result("CIS 1.6.1 AppArmor Enabled", "pass", <<"AppArmor is active.">>),
                 <<apparmor>>)
        ELSE IF /\ Truthy(out2)
                /\ Contains(out2, <<"SELinux", "status:", "enabled">>)
                /\ Contains(out2, <<"Current", "mode:", "enforcing">>)
        THEN Ret(Result("CIS 1.6.1 SELinux Enabled", "pass",
                        <<"SELinux is enabled and in enforcing mode.">>),
                 <<apparmor, sestatus>>)
        ELSE Ret(Result("CIS 1.6.1 AppArmor/SELinux", "fail",
                        <<"Neither AppArmor nor enforcing SELinux is active.">>),
                 <<apparmor, sestatus>>)

Min(a, b) == IF a < b THEN a ELSE b

FindTimeout == "30"
ReportedFiles == 10

\* a rule that looks at find's stdout only
check_world_writable_files_stdout_only(find) ==
    LET name == "CIS 6.1.4 World-Writable Files"
        r == _run_shell_command(find, FindTimeout)
    IN  IF Truthy(r.stdout)
        THEN Ret(Result(name, "fail",
                        <<"Found world-writable files, e.g.:">>
                          \o SubSeq(r.stdout.toks, 1, Min(ReportedFiles, Len(r.stdout.toks)))),
                 <<find>>)
        ELSE Ret(Result(name, "pass", <<"No world-writable files found in the given time.">>),
                 <<find>>)

\* the words of find's stdout are the paths it found, one per line
check_world_writable_files(find) ==
    LET name == "CIS 6.1.4 World-Writable Files"
        r == _run_shell_command(find, FindTimeout)
    IN  IF Truthy(r.stderr) /\ Contains(r.stderr, <<"timed", "out">>)
        THEN Ret(Result(name, "fail", <<"Check", "timed", "out", "after", FindTimeout, "seconds.">>), <<find>>)
        ELSE IF Truthy(r.stdout)
        THEN Ret(Result(name, "fail",
                        <<"Found world-writable files, e.g.:">>
                          \o SubSeq(r.stdout.toks, 1, Min(ReportedFiles, Len(r.stdout.toks)))),
                 <<find>>)
        ELSE Ret(Result(name, "pass", <<"No world-writable files found in the given time.">>),
                 <<find>>)

disabled_modules == <<"cramfs", "squashfs", "udf">>

\* modprobe[m] and lsmod[m]: the two commands run for module number m
check_unused_filesystems(modprobe, lsmod) ==
    LET name == "CIS 1.1.1 Unused Filesystems"
        N == Len(disabled_modules)
        out(m) == _run_shell_command(modprobe[m], DefaultTimeout).stdout
        lsout(m) == _run_shell_command(lsmod[m], DefaultTimeout).stdout
        raising == {m \in 1..N : out(m).isNone}   \* "install /bin/true" not in None
        CHOOSEMIN(S) == CHOOSE m \in S : \A k \in S : m <= k
        ran(n) == [i \in 1..(2 * n) |->
                      IF i % 2 = 1 THEN modprobe[(i + 1) \div 2] ELSE lsmod[i \div 2]]
        failed(m) == ~Contains(out(m), <<"install", "/bin/true">>) \/ Truthy(lsout(m))
        idx == SelectSeq([i \in 1..N |-> i], failed)
        failures == [i \in DOMAIN idx |-> disabled_modules[idx[i]]]
    IN  IF raising # {}
        THEN Raise(ran(CHOOSEMIN(raising)))
        ELSE IF failures # <<>>
        THEN Ret(Result(name, "fail", <<"Modules not disabled:">> \o failures), ran(N))
        ELSE Ret(Result(name, "pass", <<"Required filesystems are disabled.">>), ran(N))

check_time_sync(chrony, ntpd) ==
    LET name == "CIS 2.2.1.1 Time Synchronization"
        stdout_chrony == _run_shell_command(chrony, DefaultTimeout).stdout
        stdout_ntpd == _run_shell_command(ntpd, DefaultTimeout).stdout
        active == Str(<<"active">>)
    IN  IF stdout_chrony = active \/ stdout_ntpd = active
        THEN Ret(Result(name, "pass",
                        <<IF stdout_chrony = active THEN "chrony" ELSE "ntpd", "is active.">>),
                 <<chrony, ntpd>>)
        ELSE Ret(Result(name, "fail",
                        <<"No time synchronization service (chrony or ntpd) is active.">>),
                 <<chrony, ntpd>>)

PamFile == "/etc/pam.d/common-password"

check_password_policies(exists, grep) ==
    LET name == "CIS 5.3.1 Password Policies"
        stdout == _run_shell_command(grep, DefaultTimeout).stdout
    IN  IF ~exists
        THEN Ret(Result(name, "fail", <<PamFile, "not found.">>), <<>>)
        ELSE IF stdout.isNone
        THEN Raise(<<grep>>)          \* "retry=3" in None: TypeError
        ELSE IF /\ Contains(stdout, <<"retry=3">>)
                /\ \/ Contains(stdout, <<"minlen=14">>)
                   \/ Contains(stdout, <<"dcredit=-1">>)
                   \/ Contains(stdout, <<"ucredit=-1">>)
        THEN Ret(Result(name, "pass", <<"Password policies appear to be configured.">>),
                 <<grep>>)
        ELSE Ret(Result(name, "fail",
                        <<"Password quality settings not found or insufficient in", PamFile>>),
                 <<grep>>)

GdmFile == "/etc/gdm3/custom.conf"

check_gdm_autologin_disabled(exists, grep) ==
    LET name == "CIS 6.2.1 GDM Auto-Login"
        stdout == _run_shell_command(grep, DefaultTimeout).stdout
    IN  IF ~exists
        THEN Ret(Result(name, "pass",
                        <<"GDM not installed or", GdmFile, "not found (pass for servers).">>),
                 <<>>)
        ELSE IF Truthy(stdout) /\ Contains(Lower(stdout), <<"true">>)
        THEN Ret(Result(name, "fail", <<"Automatic login is enabled in", GdmFile>>), <<grep>>)
        ELSE Ret(Result(name, "pass", <<"Automatic login is disabled.">>), <<grep>>)

check_sudo_nopasswd(grep) ==
    LET name == "Bonus: Sudo NOPASSWD"
        stdout == _run_shell_command(grep, DefaultTimeout).stdout
    IN  IF Truthy(stdout)
        THEN Ret(Result(name, "fail", <<"Users with NOPASSWD in sudoers:">> \o stdout.toks),
                 <<grep>>)
        ELSE Ret(Result(name, "pass",
                        <<"No users found with NOPASSWD in sudoers configuration.">>),
                 <<grep>>)

(***************************************************************************)
(* run_all_checks: the ten rules in catalog order, each reading the host.  *)
(* What the host answers to each command is drawn when the rule runs.      *)
(***************************************************************************)
Catalog ==
    << "check_root_login", "check_firewall_enabled", "check_auditd_running",
       "check_apparmor_enabled", "check_world_writable_files",
       "check_unused_filesystems", "check_time_sync", "check_password_policies",
       "check_gdm_autologin_disabled", "check_sudo_nopasswd" >>

\* the check names each rule of the catalog reports under
CatalogNames ==
    << {"CIS 5.2.4 SSH Root Login"}, {"CIS 3.5.x Firewall Enabled"},
       {"CIS 4.1.1.2 Auditd Service"},
       {"CIS 1.6.1 AppArmor Enabled", "CIS 1.6.1 SELinux Enabled", "CIS 1.6.1 AppArmor/SELinux"},
       {"CIS 6.1.4 World-Writable Files"}, {"CIS 1.1.1 Unused Filesystems"},
       {"CIS 2.2.1.1 Time Synchronization"}, {"CIS 5.3.1 Password Policies"},
       {"CIS 6.2.1 GDM Auto-Login"}, {"Bonus: Sudo NOPASSWD"} >>

\* what the commands can print on the hosts considered
RootGrepOuts ==
    { <<>>, <<"PermitRootLogin", "no">>, <<"PermitRootLogin", "Yes">>,
      <<"PermitRootLogin", "yes">>, <<"PermitRootLogin", "prohibit-password">>,
      <<"PermitRootLogin", "no", "#", "never", "yes">> }
UfwOuts == { <<>>, <<"Status:", "active">>, <<"Status:", "inactive">> }
IsActiveOuts == { <<"active">>, <<"inactive">> }
AuditdOuts == { <<"active", "enabled">>, <<"active", "disabled">>, <<"inactive">> }
SestatusOuts ==
    { <<>>, <<"SELinux", "status:", "enabled", "Current", "mode:", "enforcing">>,
      <<"SELinux", "status:", "enabled", "Current", "mode:", "permissive">> }
FindOuts == { <<>>, <<"/tmp/shared.log">> }
ModprobeOuts == { <<"install", "/bin/true">>, <<"insmod", "/lib/modules/fs.ko">> }
LsmodOuts == { <<>>, <<"loaded">> }
PamGrepOuts ==
    { <<>>, <<"pam_pwquality.so", "retry=3", "minlen=14">>, <<"pam_pwquality.so", "retry=3">> }
GdmGrepOuts == { <<>>, <<"AutomaticLoginEnable=True">>, <<"AutomaticLoginEnable=false">> }
SudoGrepOuts == { <<>>, <<"/etc/sudoers:admin", "ALL=(ALL)", "NOPASSWD:", "ALL">> }

NextRule(pc) ==
    LET i == CHOOSE k \in DOMAIN Catalog : Catalog[k] = pc IN
    IF i = Len(Catalog) THEN "done" ELSE Catalog[i + 1]

\* one element of the list literal of run_all_checks is evaluated
Evaluated(r) ==
    /\ last_probe' = r.probes
    /\ IF r.exc
       THEN agent_pc' = "raised" /\ UNCHANGED checks
       ELSE agent_pc' = NextRule(agent_pc) /\ checks' = Append(checks, r.res)
    /\ UNCHANGED <<ingest_url, ingestVars, backendVars, report>>

RunRootLogin ==
    /\ agent_pc = "check_root_login"
    /\ \E exists \in BOOLEAN, grep \in Outcomes(RootGrepOuts) :
          Evaluated(check_root_login(exists, grep))

RunFirewallEnabled ==
    /\ agent_pc = "check_firewall_enabled"
    /\ \E ufw \in Outcomes(UfwOuts), firewalld \in Outcomes(IsActiveOuts) :
          Evaluated(check_firewall_enabled(ufw, firewalld))

RunAuditdRunning ==
    /\ agent_pc = "check_auditd_running"
    /\ \E systemctl \in Outcomes(AuditdOuts) :
          Evaluated(check_auditd_running(systemctl))

RunApparmorEnabled ==
    /\ agent_pc = "check_apparmor_enabled"
    /\ \E apparmor \in Outcomes(IsActiveOuts), sestatus \in Outcomes(SestatusOuts) :
          Evaluated(check_apparmor_enabled(apparmor, sestatus))

RunWorldWritableFiles ==
    /\ agent_pc = "check_world_writable_files"
    /\ \E find \in Outcomes(FindOuts) :
          Evaluated(check_world_writable_files(find))

RunUnusedFilesystems ==
    /\ agent_pc = "check_unused_filesystems"
    /\ \E modprobe \in [1..Len(disabled_modules) -> Outcomes(ModprobeOuts) \ {Errored}],
          lsmod \in [1..Len(disabled_modules) -> Outcomes(LsmodOuts) \ {Errored}] :
          Evaluated(check_unused_filesystems(modprobe, lsmod))

RunTimeSync ==
    /\ agent_pc = "check_time_sync"
    /\ \E chrony \in Outcomes(IsActiveOuts), ntpd \in Outcomes(IsActiveOuts) :
          Evaluated(check_time_sync(chrony, ntpd))

RunPasswordPolicies ==
    /\ agent_pc = "check_password_policies"
    /\ \E exists \in BOOLEAN, grep \in Outcomes(PamGrepOuts) :
          Evaluated(check_password_policies(exists, grep))

RunGdmAutologinDisabled ==
    /\ agent_pc = "check_gdm_autologin_disabled"
    /\ \E exists \in BOOLEAN, grep \in Outcomes(GdmGrepOuts) :
          Evaluated(check_gdm_autologin_disabled(exists, grep))

RunSudoNopasswd ==
    /\ agent_pc = "check_sudo_nopasswd"
    /\ \E grep \in Outcomes(SudoGrepOuts) :
          Evaluated(check_sudo_nopasswd(grep))

AgentInit ==
    /\ agent_pc = Catalog[1]
    /\ checks = <<>>
    /\ last_probe = "none"

(***************************************************************************)
(* Python float arithmetic (IEEE 754 binary64, round-half-to-even), as far *)
(* as the security score needs it.  A positive float is [m, e]: m is its   *)
(* 53-bit significand, most significant bit first, and its value is the    *)
(* integer m times 2^e.                                                    *)
(***************************************************************************)
MantissaBits == 53

\* Big integers are bit sequences; arithmetic on them goes through 12-bit limbs.
PowersOf2 == <<2048, 1024, 512, 256, 128, 64, 32, 16, 8, 4, 2, 1>>
LimbBits == Len(PowersOf2)

\* the n limbs of the integer b (Len(b) <= 12n), most significant first
Limbs(b, n) ==
    LET pad == LimbBits * n - Len(b)
        bit(i) == IF i <= pad THEN 0 ELSE b[i - pad]
        w(k, j) == bit(LimbBits * (k - 1) + j) * PowersOf2[j]
    IN  [k \in 1..n |->
            w(k, 1) + w(k, 2) + w(k, 3) + w(k, 4) + w(k, 5) + w(k, 6)
              + w(k, 7) + w(k, 8) + w(k, 9) + w(k, 10) + w(k, 11) + w(k, 12)]

\* the bits of the integer with these limbs, without leading zeros
Bits(limbs) ==
    LET n == LimbBits * Len(limbs)
        all == [i \in 1..n |->
                   (limbs[((i - 1) \div LimbBits) + 1] \div PowersOf2[((i - 1) % LimbBits) + 1]) % 2]
        ones == {i \in 1..n : all[i] = 1}
    IN  IF ones = {} THEN <<>>
        ELSE SubSeq(all, CHOOSE i \in ones : \A j \in ones : i <= j, n)

\* the value of a bit sequence of at most 24 bits
BitsToInt(b) == LET l == Limbs(b, 2) IN l[1] * 4096 + l[2]

\* b + 1
IncBits(b) ==
    LET zeros == {i \in DOMAIN b : b[i] = 0} IN
    IF zeros = {} THEN <<1>> \o [i \in DOMAIN b |-> 0]
    ELSE LET j == CHOOSE i \in zeros : \A k \in zeros : k <= i
         IN  [i \in DOMAIN b |-> IF i < j THEN b[i] ELSE IF i = j THEN 1 ELSE 0]

\* round-half-to-even of the integer b (first bit 1) to MantissaBits bits, given
\* that what follows b is more than ("gt"), exactly ("eq") or less than ("lt")
\* half a unit of b's last bit
RoundEven(b, e, rest) ==
    LET up == rest = "gt" \/ (rest = "eq" /\ b[Len(b)] = 1)
        r == IF up THEN IncBits(b) ELSE b
    IN  IF Len(r) > MantissaBits
        THEN [m |-> SubSeq(r, 1, MantissaBits), e |-> e + 1]   \* 2^53: all zeros follow
        ELSE [m |-> r, e |-> e]

\* 2^i mod t, for 0 <= i < 64
Pow2Mod(i, t) ==
    LET s0 == 2 % t
        s1 == (s0 * s0) % t
        s2 == (s1 * s1) % t
        s3 == (s2 * s2) % t
        s4 == (s3 * s3) % t
        s5 == (s4 * s4) % t
        f(w, sq) == IF (i \div w) % 2 = 1 THEN sq ELSE 1
    IN  (((((((((f(1, s0) * f(2, s1)) % t) * f(4, s2)) % t) * f(8, s3)) % t)
            * f(16, s4)) % t) * f(32, s5)) % t

\* bit number i >= 1 after the binary point of p/t, and what is left of p/t
\* after i bits, as a remainder (0 <= p < t)
FractionBit(p, t, i) == (2 * ((p * Pow2Mod(i - 1, t)) % t)) \div t
FractionRem(p, t, i) == (p * Pow2Mod(i, t)) % t

RECURSIVE ShiftToAtLeast(_, _)
ShiftToAtLeast(p, t) == IF p >= t THEN 0 ELSE 1 + ShiftToAtLeast(2 * p, t)

RECURSIVE Pow2(_)
Pow2(k) == IF k = 0 THEN 1 ELSE 2 * Pow2(k - 1)

FloatZero == [m |-> <<>>, e |-> 0]
FloatOne == [m |-> [i \in 1..MantissaBits |-> IF i = 1 THEN 1 ELSE 0], e |-> 1 - MantissaBits]

\* p / t for ints 0 <= p <= t, t > 0: true division, correctly rounded
FloatDiv(p, t) ==
    IF p = 0 THEN FloatZero
    ELSE IF p = t THEN FloatOne
    ELSE LET z == ShiftToAtLeast(p, t) - 1      \* zero bits after the binary point
             m == [j \in 1..MantissaBits |-> FractionBit(p, t, z + j)]
             rem == FractionRem(p, t, z + MantissaBits)
             rest == IF 2 * rem > t THEN "gt" ELSE IF 2 * rem = t THEN "eq" ELSE "lt"
         IN  RoundEven(m, 0 - z - MantissaBits, rest)

\* limbs times c, from the last limb up
RECURSIVE MulLimbs(_, _, _, _)
MulLimbs(l, c, i, carry) ==
    IF i = 0 THEN <<carry>>
    ELSE LET v == l[i] * c + carry
         IN  Append(MulLimbs(l, c, i - 1, v \div 4096), v % 4096)

\* the integer b (at most 60 bits) times c, 0 < c < 4096
MulBits(b, c) == Bits(MulLimbs(Limbs(b, 5), c, 5, 0))

\* f * c for a float f and a small positive int c
FloatMul(f, c) ==
    IF f = FloatZero THEN FloatZero ELSE
    LET prod == MulBits(f.m, c)
        d == Len(prod) - MantissaBits
        kept == SubSeq(prod, 1, MantissaBits)
        dropped == SubSeq(prod, MantissaBits + 1, Len(prod))
        tail == SubSeq(dropped, 2, Len(dropped))
        rest == IF d = 0 \/ dropped[1] = 0 THEN "lt"
                ELSE IF \E i \in DOMAIN tail : tail[i] = 1 THEN "gt" ELSE "eq"
    IN  RoundEven(kept, f.e + d, rest)

\* int(f): truncation
FloatToInt(f) ==
    IF f.e >= 0 THEN BitsToInt(f.m) * Pow2(f.e)
    ELSE IF Len(f.m) + f.e <= 0 THEN 0
    ELSE BitsToInt(SubSeq(f.m, 1, Len(f.m) + f.e))

(***************************************************************************)
(* Ingest Lambda (lambda-functions/ingest/lambda_function.py).             *)
(* A JSON object is a record; a key the object lacks is not in its DOMAIN. *)
(***************************************************************************)
\* dict.get(key, default)
Get(d, key, default) == IF key \in DOMAIN d THEN d[key] ELSE default

\* a body that json.loads rejects
InvalidJson == [invalid_json |-> TRUE]

\* the largest number of results of one host, and of one fleet, in any specification
MaxChecks == 50

\* int((passed_checks / total_checks * 100)) if total_checks > 0 else 0
ScoreOf(passed_checks, total_checks) ==
    IF total_checks > 0
    THEN FloatToInt(FloatMul(FloatDiv(passed_checks, total_checks), 100))
    ELSE 0

\* ScoreOf, computed once for every pair that can occur
ScoreTable == [t \in 0..MaxChecks |-> [q \in 0..t |-> ScoreOf(q, t)]]

SecurityScore(passed_checks, total_checks) == ScoreTable[total_checks][passed_checks]

IsPass(r) == Get(r, "status", "") = "pass"

\* sum(1 for r in cis_results if r.get('status') == 'pass')
PassedChecks(cis_results) ==
    Cardinality({i \in DOMAIN cis_results : IsPass(cis_results[i])})

\* a handler that counts only the results that passed or failed
TotalChecksDecided(cis_results) ==
    Cardinality({i \in DOMAIN cis_results :
                    Get(cis_results[i], "status", "") \in {"pass", "fail"}})

TotalChecks(cis_results) == Len(cis_results)

Metrics(cis_results, installed_packages) ==
    [security_score |-> SecurityScore(PassedChecks(cis_results), TotalChecks(cis_results)),
     passed_checks |-> PassedChecks(cis_results),
     total_checks |-> TotalChecks(cis_results),
     total_packages |-> Len(installed_packages)]

\* lines 34-65: "" when the event is accepted, else the error of the 400 response;
\* a hostname that is absent (None) or empty is falsy alike
ValidationError(event) ==
    IF event.body = InvalidJson THEN "Invalid JSON in request body"
    ELSE IF "host_details" \notin DOMAIN event.body THEN "Missing required field: host_details"
    ELSE IF Get(event.body.host_details, "hostname", "") = ""
    THEN "Missing hostname in host_details"
    ELSE ""

\* lines 90-97: lookup is "ok" when table.get_item answers, "error" when it raises
FirstSeen(lookup, tbl, hostname, current_timestamp) ==
    IF lookup = "ok"
    THEN IF hostname \in DOMAIN tbl
         THEN Get(tbl[hostname].metadata, "first_seen", current_timestamp)
         ELSE current_timestamp
    ELSE current_timestamp

\* lines 67-83 and 101-121; the JSON round trip of line 125 changes no value of
\* the payloads considered (they hold no float)
Item(event, current_timestamp, first_seen, updated_at) ==
    LET body == event.body
        installed_packages == Get(body, "installed_packages", <<>>)
        cis_results == Get(body, "cis_results", <<>>)
    IN  [hostname |-> body.host_details.hostname,
         data |-> [host_details |-> body.host_details,
                   installed_packages |-> installed_packages,
                   cis_results |-> cis_results],
         metrics |-> Metrics(cis_results, installed_packages),
         metadata |-> [agent_version |-> Get(body, "agent_version", "1.0.0"),
                       last_ip |-> Get(event, "sourceIp", "unknown"),
                       first_seen |-> first_seen,
                       last_seen |-> current_timestamp,
                       updated_at |-> updated_at]]

\* a write that leaves an existing item of the hostname in place
PutItemIfAbsent(tbl, item) == tbl @@ (item.hostname :> item)

\* table.put_item(Item=item)
PutItem(tbl, item) == (item.hostname :> item) @@ tbl

Response(status, hostname) == <<[status |-> status, hostname |-> hostname]>>

\* One whole invocation, run with no other invocation in between.  lookup and
\* put are what DynamoDB answers; now2 is the clock at line 119.
lambda_handler(event, lookup, put, now2) ==
    /\ ingest_url = "api_gateway"
    /\ IF ValidationError(event) # ""
       THEN /\ response' = Response(400, "")
            /\ UNCHANGED <<table, clock>>
       ELSE LET hostname == event.body.host_details.hostname
                current_timestamp == clock
                first_seen == FirstSeen(lookup, table, hostname, current_timestamp)
                item == Item(event, current_timestamp, first_seen, now2)
            IN  /\ clock' = now2
                /\ IF put = "ok"
                   THEN table' = PutItem(table, item) /\ response' = Response(200, hostname)
                   ELSE UNCHANGED table /\ response' = Response(500, hostname)
    /\ UNCHANGED <<agentVars, ingest_url, inv, backendVars, report>>

(***************************************************************************)
(* The same handler with concurrent invocations: each invocation reads the *)
(* clock (line 86), looks the host up (91), reads the clock again (119)    *)
(* and writes (128); other invocations may run between these steps.        *)
(***************************************************************************)
NumInvocations == 2
Invocations == 1..NumInvocations

NoEvent == [body |-> InvalidJson]
Idle == [pc |-> "idle", event |-> NoEvent, current_timestamp |-> 0, first_seen |-> 0,
         updated_at |-> 0]

\* lines 29-86
Receive(i, event) ==
    /\ ingest_url = "api_gateway"
    /\ inv[i].pc = "idle"
    /\ IF ValidationError(event) # ""
       THEN response' = Response(400, "") /\ UNCHANGED inv
       ELSE /\ inv' = [inv EXCEPT ![i] = [Idle EXCEPT !.pc = "lookup", !.event = event,
                                                      !.current_timestamp = clock]]
            /\ UNCHANGED response
    /\ UNCHANGED <<agentVars, ingest_url, table, clock, backendVars, report>>

\* lines 88-97
Lookup(i, lookup) ==
    /\ inv[i].pc = "lookup"
    /\ inv' = [inv EXCEPT ![i].pc = "build",
                          ![i].first_seen =
                              FirstSeen(lookup, table, inv[i].event.body.host_details.hostname,
                                        inv[i].current_timestamp)]
    /\ UNCHANGED <<agentVars, ingest_url, table, clock, response, backendVars, report>>

\* lines 99-125
Build(i) ==
    /\ inv[i].pc = "build"
    /\ inv' = [inv EXCEPT ![i].pc = "put", ![i].updated_at = clock]
    /\ UNCHANGED <<agentVars, ingest_url, table, clock, response, backendVars, report>>

\* lines 127-147, or the handler of line 164 when put_item raises
Put(i, put) ==
    /\ inv[i].pc = "put"
    /\ LET l == inv[i]
           item == Item(l.event, l.current_timestamp, l.first_seen, l.updated_at)
       IN  IF put = "ok"
           THEN table' = PutItem(table, item) /\ response' = Response(200, item.hostname)
           ELSE UNCHANGED table /\ response' = Response(500, item.hostname)
    /\ inv' = [inv EXCEPT ![i] = Idle]
    /\ UNCHANGED <<agentVars, ingest_url, clock, backendVars, report>>

MaxClock == 3

\* time passes
Tick ==
    /\ clock < MaxClock
    /\ clock' = clock + 1
    /\ UNCHANGED <<agentVars, ingest_url, table, inv, response, backendVars, report>>

(***************************************************************************)
(* Local backend (saas_project/backend/main.py), local mode.               *)
(***************************************************************************)
HasKeys(d, keys) == keys \subseteq DOMAIN d

\* pydantic's validation of AgentPayload: every declared field is required
ValidAgentPayload(body) ==
    /\ body # InvalidJson
    /\ HasKeys(body, {"host_details", "installed_packages", "cis_results"})
    /\ HasKeys(body.host_details, {"hostname", "os_type", "os_version"})
    /\ \A i \in DOMAIN body.installed_packages :
          HasKeys(body.installed_packages[i], {"name", "version"})
    /\ \A i \in DOMAIN body.cis_results :
          HasKeys(body.cis_results[i], {"check", "status", "evidence"})

\* the parsed model keeps the declared fields only
AgentPayload(body) ==
    [host_details |-> body.host_details,
     installed_packages |-> body.installed_packages,
     cis_results |-> body.cis_results]

\* POST /ingest
ingest_data(body) ==
    /\ ingest_url = "backend"
    /\ IF ValidAgentPayload(body)
       THEN /\ DB' = (body.host_details.hostname :> AgentPayload(body)) @@ DB
            /\ DB_keys' = IF body.host_details.hostname \in DOMAIN DB
                          THEN DB_keys ELSE Append(DB_keys, body.host_details.hostname)
            /\ backend_status' = 200
       ELSE /\ backend_status' = 422
            /\ UNCHANGED <<DB, DB_keys>>
    /\ UNCHANGED <<agentVars, ingest_url, ingestVars, report>>

(***************************************************************************)
(* Fleet aggregation Lambda (lambda-functions/get-cis-results).            *)
(* Rates are kept in hundredths of a percent: round(x, 2) of Python is the *)
(* float nearest to h/100 for the integer h nearest to the exact 100*x     *)
(* (ties to even), and floats so rounded compare as their h do.            *)
(***************************************************************************)
\* the hundredths of round(f, 2) for a float f >= 0
Round2(f) ==
    IF f = FloatZero THEN 0 ELSE
    LET prod == MulBits(f.m, 100)                 \* the exact 100*f is prod * 2^f.e
        n == Len(prod) + f.e                      \* bits before the binary point
        whole == IF n <= 0 THEN <<>> ELSE SubSeq(prod, 1, n)
        frac == IF n < 0 THEN <<0>> \o prod ELSE SubSeq(prod, n + 1, Len(prod))
        tail == SubSeq(frac, 2, Len(frac))
        rest == IF frac = <<>> \/ frac[1] = 0 THEN "lt"
                ELSE IF \E i \in DOMAIN tail : tail[i] = 1 THEN "gt" ELSE "eq"
        h == BitsToInt(whole)
    IN  IF f.e >= 0 THEN BitsToInt(prod) * Pow2(f.e)
        ELSE IF rest = "gt" \/ (rest = "eq" /\ h % 2 = 1) THEN h + 1 ELSE h

\* round((count / total) * 100, 2), in hundredths
RateOf(count, total) == Round2(FloatMul(FloatDiv(count, total), 100))

\* RateOf, computed once for every pair that can occur
RateTable == [t \in 1..MaxChecks |-> [q \in 0..t |-> RateOf(q, t)]]

\* a rate cut off after two decimals instead of rounded
RateTruncated(count, total) == (10000 * count) \div total

RatePercent(count, total) == RateTable[total][count]

\* the results of all items, in scan order, each with its item's hostname
RECURSIVE Flatten(_)
Flatten(items) ==
    IF items = <<>> THEN <<>>
    ELSE LET item == items[Len(items)]
             cis_results == Get(Get(item, "data", <<>>), "cis_results", <<>>)
         IN  Flatten(SubSeq(items, 1, Len(items) - 1))
               \o [i \in DOMAIN cis_results |->
                     [hostname |-> item.hostname, result |-> cis_results[i]]]

\* check_stats[check_name]: the defaultdict makes the entry on first access
NewStat(check_name) ==
    [check_name |-> check_name, pass_count |-> 0, fail_count |-> 0, pass_rate |-> 0,
     failed_hosts |-> <<>>]

Access(stats, check_name) ==
    IF \E i \in DOMAIN stats : stats[i].check_name = check_name
    THEN stats ELSE Append(stats, NewStat(check_name))

IndexOf(stats, check_name) == CHOOSE i \in DOMAIN stats : stats[i].check_name = check_name

\* an inner loop that counts a result into total_checks only once it has
\* matched 'pass' or 'fail'
CountResultSkipOther(acc, x) ==
    LET check_name == Get(x.result, "check", "Unknown")
        status == Get(x.result, "status", "unknown")
        stats == Access(acc.stats, check_name)
        k == IndexOf(stats, check_name)
    IN  IF status = "pass"
        THEN [acc EXCEPT !.total_checks = @ + 1, !.total_passed = @ + 1,
                         !.stats = [stats EXCEPT ![k].pass_count = @ + 1]]
        ELSE IF status = "fail"
        THEN [acc EXCEPT !.total_checks = @ + 1, !.total_failed = @ + 1,
                         !.stats = [stats EXCEPT
                                      ![k].fail_count = @ + 1,
                                      ![k].failed_hosts =
                                          Append(@, [hostname |-> x.hostname,
                                                     evidence |-> Get(x.result, "evidence",
                                                                      <<"No evidence">>)])]]
        ELSE acc

\* an inner loop whose last branch is "else" instead of "elif status == 'fail'"
CountResultElseFail(acc, x) ==
    LET check_name == Get(x.result, "check", "Unknown")
        status == Get(x.result, "status", "unknown")
        stats == Access(acc.stats, check_name)
        k == IndexOf(stats, check_name)
    IN  IF status = "pass"
        THEN [acc EXCEPT !.total_checks = @ + 1, !.total_passed = @ + 1,
                         !.stats = [stats EXCEPT ![k].pass_count = @ + 1]]
        ELSE [acc EXCEPT !.total_checks = @ + 1, !.total_failed = @ + 1,
                         !.stats = [stats EXCEPT
                                      ![k].fail_count = @ + 1,
                                      ![k].failed_hosts =
                                          Append(@, [hostname |-> x.hostname,
                                                     evidence |-> Get(x.result, "evidence",
                                                                      <<"No evidence">>)])]]

\* an inner loop that puts the newest failure first in failed_hosts
CountResultNewestFirst(acc, x) ==
    LET check_name == Get(x.result, "check", "Unknown")
        status == Get(x.result, "status", "unknown")
        stats == Access(acc.stats, check_name)
        k == IndexOf(stats, check_name)
    IN  IF status = "pass"
        THEN [acc EXCEPT !.total_checks = @ + 1, !.total_passed = @ + 1,
                         !.stats = [stats EXCEPT ![k].pass_count = @ + 1]]
        ELSE IF status = "fail"
        THEN [acc EXCEPT !.total_checks = @ + 1, !.total_failed = @ + 1,
                         !.stats = [stats EXCEPT
                                      ![k].fail_count = @ + 1,
                                      ![k].failed_hosts =
                                          <<[hostname |-> x.hostname,
                                             evidence |-> Get(x.result, "evidence",
                                                              <<"No evidence">>)]>> \o @]]
        ELSE [acc EXCEPT !.total_checks = @ + 1]

\* lines 70-85: the body of the inner loop for one result
CountResult(acc, x) ==
    LET check_name == Get(x.result, "check", "Unknown")
        status == Get(x.result, "status", "unknown")
        stats == Access(acc.stats, check_name)
        k == IndexOf(stats, check_name)
    IN  IF status = "pass"
        THEN [acc EXCEPT !.total_checks = @ + 1, !.total_passed = @ + 1,
                         !.stats = [stats EXCEPT ![k].pass_count = @ + 1]]
        ELSE IF status = "fail"
        THEN [acc EXCEPT !.total_checks = @ + 1, !.total_failed = @ + 1,
                         !.stats = [stats EXCEPT
                                      ![k].fail_count = @ + 1,
                                      ![k].failed_hosts =
                                          Append(@, [hostname |-> x.hostname,
                                                     evidence |-> Get(x.result, "evidence",
                                                                      <<"No evidence">>)])]]
        ELSE [acc EXCEPT !.total_checks = @ + 1]

RECURSIVE CountAll(_, _, _)
CountAll(flat, i, acc) ==
    IF i > Len(flat) THEN acc ELSE CountAll(flat, i + 1, CountResult(acc, flat[i]))

\* lines 89-92
WithPassRate(stat) ==
    LET total == stat.pass_count + stat.fail_count IN
    IF total > 0 THEN [stat EXCEPT !.pass_rate = RatePercent(stat.pass_count, total)]
    ELSE stat

\* list.sort(key=pass_rate): stable, ascending
RECURSIVE InsertByRate(_, _)
InsertByRate(sorted, stat) ==
    IF sorted = <<>> THEN <<stat>>
    ELSE IF sorted[Len(sorted)].pass_rate <= stat.pass_rate THEN Append(sorted, stat)
    ELSE Append(InsertByRate(SubSeq(sorted, 1, Len(sorted) - 1), stat), sorted[Len(sorted)])

RECURSIVE SortFrom(_, _, _)
SortFrom(seq, i, sorted) ==
    IF i > Len(seq) THEN sorted ELSE SortFrom(seq, i + 1, InsertByRate(sorted, seq[i]))

SortByPassRate(seq) == SortFrom(seq, 1, <<>>)

\* a threshold test written as pass_rate <= 50
CriticalUpTo == 5000 + 1

CriticalBelow == 5000     \* pass_rate < 50
TopFailing == 5

\* lines 49-130, for the items in the order the scan returned them
Aggregate(items) ==
    LET acc == CountAll(Flatten(items), 1,
                        [total_checks |-> 0, total_passed |-> 0, total_failed |-> 0,
                         stats |-> <<>>])
        checks_summary == SortByPassRate([i \in DOMAIN acc.stats |-> WithPassRate(acc.stats[i])])
    IN  [statusCode |-> 200,
         summary |-> [total_hosts |-> Len(items),
                      total_checks |-> acc.total_checks,
                      total_passed |-> acc.total_passed,
                      total_failed |-> acc.total_failed,
                      overall_pass_rate |->
                          IF acc.total_checks > 0
                          THEN RatePercent(acc.total_passed, acc.total_checks) ELSE 0],
         checks |-> checks_summary,
         critical_checks |-> SelectSeq(checks_summary,
                                       LAMBDA c : c.pass_rate < CriticalBelow),
         top_failing_checks |-> SubSeq(checks_summary, 1, Min(TopFailing, Len(checks_summary))),
         scanned |-> items]

\* the orders in which table.scan() may return the items
ScanOrders(tbl) ==
    LET n == Cardinality(DOMAIN tbl) IN
    {[i \in 1..n |-> tbl[f[i]]] :
        f \in {g \in [1..n -> DOMAIN tbl] : \A a, b \in 1..n : a # b => g[a] # g[b]}}

\* a handler that treats a scan without items as a failure
get_cis_results_no_items(scan) ==
    /\ IF scan = "ok" /\ table # [h \in {} |-> <<>>]
       THEN \E items \in ScanOrders(table) : report' = <<Aggregate(items)>>
       ELSE report' = <<[statusCode |-> 500]>>
    /\ UNCHANGED <<agentVars, ingest_url, ingestVars, backendVars>>

\* GET /cis-results; scan is "ok", or "error" when table.scan raises
get_cis_results(scan) ==
    /\ IF scan = "ok"
       THEN \E items \in ScanOrders(table) : report' = <<Aggregate(items)>>
       ELSE report' = <<[statusCode |-> 500]>>
    /\ UNCHANGED <<agentVars, ingest_url, ingestVars, backendVars>>

(***************************************************************************)
(* Host listing: the get-hosts Lambda and the backend's GET /api/hosts in  *)
(* local mode.  Python compares str by code points; Alphabet lists the     *)
(* hostnames in use in that order.                                         *)
(***************************************************************************)
Alphabet == <<"", "app", "db", "web">>

StrRank(str) == CHOOSE i \in DOMAIN Alphabet : Alphabet[i] = str

\* lines 61-72 of get-hosts
HostSummary(item) ==
    LET host_details == Get(Get(item, "data", <<>>), "host_details", <<>>)
        metrics == Get(item, "metrics", <<>>)
        metadata == Get(item, "metadata", <<>>)
    IN  [hostname |-> item.hostname,
         os_type |-> host_details.os_type,
         os_version |-> host_details.os_version,
         security_score |-> Get(metrics, "security_score", 0),
         passed_checks |-> Get(metrics, "passed_checks", 0),
         total_checks |-> Get(metrics, "total_checks", 0),
         total_packages |-> Get(metrics, "total_packages", 0),
         last_seen |-> metadata.last_seen,
         last_ip |-> metadata.last_ip,
         agent_version |-> metadata.agent_version]

\* hosts.sort(key=hostname): stable, ascending
RECURSIVE InsertByHostname(_, _)
InsertByHostname(sorted, host) ==
    IF sorted = <<>> THEN <<host>>
    ELSE IF StrRank(sorted[Len(sorted)].hostname) <= StrRank(host.hostname)
    THEN Append(sorted, host)
    ELSE Append(InsertByHostname(SubSeq(sorted, 1, Len(sorted) - 1), host),
                sorted[Len(sorted)])

RECURSIVE SortHostsFrom(_, _, _)
SortHostsFrom(seq, i, sorted) ==
    IF i > Len(seq) THEN sorted
    ELSE SortHostsFrom(seq, i + 1, InsertByHostname(sorted, seq[i]))

SortByHostname(seq) == SortHostsFrom(seq, 1, <<>>)

\* GET /hosts of the API Gateway; scan is "ok", or "error" when table.scan raises
get_hosts_lambda(scan) ==
    /\ ingest_url = "api_gateway"
    /\ IF scan = "ok"
       THEN \E items \in ScanOrders(table) :
               report' = <<[statusCode |-> 200,
                            hosts |-> SortByHostname([i \in DOMAIN items |->
                                                        HostSummary(items[i])]),
                            count |-> Len(items)]>>
       ELSE report' = <<[statusCode |-> 500]>>
    /\ UNCHANGED <<agentVars, ingest_url, ingestVars, backendVars>>

\* GET /api/hosts of the backend, local mode: list(DB.keys())
get_hosts ==
    /\ ingest_url = "backend"
    /\ report' = <<[statusCode |-> 200, hosts |-> DB_keys, count |-> Len(DB_keys),
                    mode |-> "Local"]>>
    /\ UNCHANGED <<agentVars, ingest_url, ingestVars, backendVars>>

(***************************************************************************)
(* Host lookup: the get-host-details Lambda and the backend's              *)
(* GET /api/hosts/{hostname} in local mode.                                *)
(***************************************************************************)
\* GET /hosts/{hostname} of the API Gateway; get is "ok", or "error" when
\* table.get_item raises
get_host_details(event, get) ==
    /\ ingest_url = "api_gateway"
    /\ LET hostname == Get(Get(event, "pathParameters", <<>>), "hostname", "") IN
       IF hostname = ""
       THEN report' = <<[statusCode |-> 400, error |-> "Missing hostname parameter"]>>
       ELSE IF get # "ok"
       THEN report' = <<[statusCode |-> 500]>>
       ELSE IF hostname \notin DOMAIN table
       THEN report' = <<[statusCode |-> 404, error |-> "Host not found",
                         hostname |-> hostname]>>
       ELSE LET item == table[hostname]
                data == Get(item, "data", <<>>)
            IN  report' = <<[statusCode |-> 200,
                             hostname |-> item.hostname,
                             host_details |-> Get(data, "host_details", <<>>),
                             installed_packages |-> Get(data, "installed_packages", <<>>),
                             cis_results |-> Get(data, "cis_results", <<>>),
                             metrics |-> item.metrics,
                             metadata |-> item.metadata]>>
    /\ UNCHANGED <<agentVars, ingest_url, ingestVars, backendVars>>

\* GET /api/hosts/{hostname} of the backend, local mode
get_host_data(hostname) ==
    /\ ingest_url = "backend"
    /\ IF hostname \in DOMAIN DB
       THEN report' = <<[statusCode |-> 200, payload |-> DB[hostname]]>>
       ELSE report' = <<[statusCode |-> 200, error |-> "Host not found"]>>
    /\ UNCHANGED <<agentVars, ingest_url, ingestVars, backendVars>>

(***************************************************************************)
(* Inputs                                                                  *)
(***************************************************************************)
MaxResults == 2

SeqsUpTo(U, n) == UNION {[1..k -> U] : k \in 0..n}

Hostnames == {"web", "db"}
Statuses == {"pass", "fail", "skipped"}

HostDetails(h) == [hostname |-> h, os_type |-> "Linux", os_version |-> "5.15"]
PackageLists == { <<>>, <<[name |-> "bash", version |-> "5.1"]>> }

\* results as the agent sends them
ResultsOf(names) == {Result(c, st, <<"evidence">>) : c \in names, st \in Statuses}

\* a result with neither a check name nor a status
BareResult == [evidence |-> <<"evidence">>]

Body(h, pk, rs) ==
    [host_details |-> HostDetails(h), installed_packages |-> pk, cis_results |-> rs,
     agent_version |-> "1.1.0"]

\* bodies with no usable hostname
BadBodies ==
    { InvalidJson,
      [installed_packages |-> <<>>, cis_results |-> <<>>],
      [host_details |-> [os_type |-> "Linux", os_version |-> "5.15"],
       installed_packages |-> <<>>, cis_results |-> <<>>],
      Body("", <<>>, <<>>) }

\* host "web" reports every list of results, host "db" none
DataBodies ==
    {Body("web", <<>>, rs) : rs \in SeqsUpTo(ResultsOf({"CIS A"}), MaxResults)}
      \cup {Body("web", pk, <<BareResult>>) : pk \in PackageLists}
      \cup {Body("db", pk, <<>>) : pk \in PackageLists}
      \cup {[host_details |-> HostDetails("db")]}
      \cup BadBodies

DataEvents == {[body |-> b, sourceIp |-> "10.0.0.1"] : b \in DataBodies}

TimeBodies ==
    {Body("web", <<>>, rs) : rs \in SeqsUpTo({Result("CIS A", "pass", <<"evidence">>)}, 1)}

TimeEvents ==
    {[body |-> b, sourceIp |-> ip] : b \in TimeBodies, ip \in {"10.0.0.1", "10.0.0.2"}}
      \cup {[body |-> b] : b \in TimeBodies}

ConcEvents == {[body |-> Body("web", <<>>, <<>>), sourceIp |-> "10.0.0.1"]}

Answers == {"ok", "error"}

EmptyDict == [h \in {} |-> <<>>]

(***************************************************************************)
(* Specifications                                                          *)
(***************************************************************************)
IngestIdle ==
    /\ table = EmptyDict
    /\ clock = 0
    /\ inv = [i \in Invocations |-> Idle]
    /\ response = <<>>

BackendIdle ==
    /\ DB = EmptyDict
    /\ DB_keys = <<>>
    /\ backend_status = 0

\* Ingest through either entry point, one request at a time
Init ==
    /\ AgentInit
    /\ ingest_url \in {"api_gateway", "backend"}
    /\ IngestIdle
    /\ BackendIdle
    /\ report = <<>>

LambdaIngest ==
    \E event \in DataEvents, lookup \in Answers, put \in Answers :
        lambda_handler(event, lookup, put, clock)

BackendIngest == \E body \in DataBodies : ingest_data(body)

Next == LambdaIngest \/ BackendIngest

Spec == Init /\ [][Next]_vars

\* The deployed configuration (the agent posts to the API Gateway); the agent's check run
InitApiGateway ==
    /\ AgentInit
    /\ ingest_url = "api_gateway"
    /\ IngestIdle
    /\ BackendIdle
    /\ report = <<>>

NextAgent ==
    \/ RunRootLogin
    \/ RunFirewallEnabled
    \/ RunAuditdRunning
    \/ RunApparmorEnabled
    \/ RunWorldWritableFiles
    \/ RunUnusedFilesystems
    \/ RunTimeSync
    \/ RunPasswordPolicies
    \/ RunGdmAutologinDisabled
    \/ RunSudoNopasswd

SpecAgent == InitApiGateway /\ [][NextAgent]_vars

\* Ingests of one host over time, one request at a time
TimedIngest ==
    \E event \in TimeEvents, lookup \in Answers, put \in Answers, now2 \in clock..MaxClock :
        lambda_handler(event, lookup, put, now2)

NextSeq == Tick \/ TimedIngest

SpecSeq == InitApiGateway /\ [][NextSeq]_vars

\* Overlapping ingests of one host
NextConc ==
    \/ Tick
    \/ \E i \in Invocations, event \in ConcEvents : Receive(i, event)
    \/ \E i \in Invocations, lookup \in Answers : Lookup(i, lookup)
    \/ \E i \in Invocations : Build(i)
    \/ \E i \in Invocations, put \in Answers : Put(i, put)

SpecConc == InitApiGateway /\ [][NextConc]_vars

\* Overlapping ingests of one host while every table.get_item call (line 91) answers
NextOverlap ==
    \/ Tick
    \/ \E i \in Invocations, event \in ConcEvents : Receive(i, event)
    \/ \E i \in Invocations : Lookup(i, "ok")
    \/ \E i \in Invocations : Build(i)
    \/ \E i \in Invocations, put \in Answers : Put(i, put)

SpecOverlap == InitApiGateway /\ [][NextOverlap]_vars

\* The score of hosts with many checks: one invocation, from the point where it
\* has accepted its event

ScoreEvents ==
    {[body |-> Body("web", <<>>,
                    [i \in 1..t |-> Result("CIS A", IF i <= q THEN "pass" ELSE "fail",
                                           <<"evidence">>)])] :
        q \in 0..MaxChecks, t \in 0..MaxChecks}

InitScore ==
    /\ AgentInit
    /\ ingest_url = "api_gateway"
    /\ table = EmptyDict
    /\ clock = 0
    /\ \E event \in ScoreEvents :
          inv = [i \in Invocations |->
                    IF i = 1 THEN [Idle EXCEPT !.pc = "lookup", !.event = event] ELSE Idle]
    /\ response = <<>>
    /\ BackendIdle
    /\ report = <<>>

NextScore == Lookup(1, "ok") \/ Build(1) \/ Put(1, "ok")

SpecScore == InitScore /\ [][NextScore]_vars

\* Aggregation over the tables that ingests can leave behind
MaxFleetResults == 3

AggResults ==
    (ResultsOf({"CIS A", "CIS B"}) \ {Result("CIS B", "skipped", <<"evidence">>)})
      \cup {BareResult}

RECURSIVE Tables(_, _)
Tables(S, budget) ==
    IF S = {} THEN {EmptyDict}
    ELSE LET h == CHOOSE x \in S : TRUE IN
         UNION { { (h :> Item([body |-> Body(h, <<>>, rs)], 0, 0, 0)) @@ rest :
                      rest \in Tables(S \ {h}, budget - Len(rs)) } :
                 rs \in SeqsUpTo(AggResults, budget) }

AggTables == UNION {Tables(S, MaxFleetResults) : S \in SUBSET Hostnames}

InitAgg ==
    /\ AgentInit
    /\ ingest_url = "api_gateway"
    /\ table \in AggTables
    /\ clock = 0
    /\ inv = [i \in Invocations |-> Idle]
    /\ response = <<>>
    /\ BackendIdle
    /\ report = <<>>

NextAgg == \E scan \in Answers : get_cis_results(scan)

SpecAgg == InitAgg /\ [][NextAgg]_vars

\* Aggregation over fleets with many results of one check, and with many checks
MaxNames == 6

CheckNames == <<"CIS 1", "CIS 2", "CIS 3", "CIS 4", "CIS 5", "CIS 6", "CIS 7", "CIS 8">>

StoredItem(h, rs) == Item([body |-> Body(h, <<>>, rs)], 0, 0, 0)

\* one host with c[1] passed, c[2] failed and c[3] skipped results of one check
RateCounts ==
    {c \in (0..MaxChecks) \X (0..MaxChecks) \X (0..1) : c[1] + c[2] + c[3] <= MaxChecks}

RateResults(c) ==
    [i \in 1..(c[1] + c[2] + c[3]) |->
        Result("CIS A",
               IF i <= c[1] THEN "pass" ELSE IF i <= c[1] + c[2] THEN "fail" ELSE "skipped",
               <<"evidence">>)]

RateTables == {"web" :> StoredItem("web", RateResults(c)) : c \in RateCounts}

\* host "web" reports up to MaxNames checks, host "db" the first two of them at most
StatusVectors(n) == UNION {[1..k -> {"pass", "fail"}] : k \in 0..n}

WideResults(v) == [i \in DOMAIN v |-> Result(CheckNames[i], v[i], <<"evidence">>)]

WideTables ==
    { ("web" :> StoredItem("web", WideResults(v))) @@ ("db" :> StoredItem("db", WideResults(w))) :
        v \in StatusVectors(MaxNames), w \in StatusVectors(2) }

InitFleet ==
    /\ AgentInit
    /\ ingest_url = "api_gateway"
    /\ table \in RateTables \cup WideTables
    /\ clock = 0
    /\ inv = [i \in Invocations |-> Idle]
    /\ response = <<>>
    /\ BackendIdle
    /\ report = <<>>

SpecFleet == InitFleet /\ [][NextAgg]_vars

\* From the agent to the fleet report, on a host whose filesystem scan exceeds
\* its budget.  The run starts after the first four rules, which have failed
\* for want of sshd_config, a firewall, auditd and AppArmor/SELinux.
AGENT_VERSION == "1.0.0"

\* main: the payload, posted to INGEST_URL once run_all_checks has returned
data_to_send(host_info, packages, security_checks) ==
    [host_details |-> host_info, installed_packages |-> packages,
     cis_results |-> security_checks, agent_version |-> AGENT_VERSION]

main ==
    /\ agent_pc = "done"
    /\ LET body == data_to_send(HostDetails("web"), <<>>, checks) IN
       IF ingest_url = "api_gateway"
       THEN \E lookup \in Answers, put \in Answers :
                lambda_handler([body |-> body, sourceIp |-> "10.0.0.1"], lookup, put, clock)
       ELSE ingest_data(body)

Quiet(out) == Completed(out, <<>>)

BareHostChecks ==
    << check_root_login(FALSE, Quiet(<<>>)).res,
       check_firewall_enabled(Quiet(<<>>), Quiet(<<"inactive">>)).res,
       check_auditd_running(Quiet(<<"inactive">>)).res,
       check_apparmor_enabled(Quiet(<<"inactive">>), Quiet(<<>>)).res >>

\* the other six rules on the same host: nothing world-writable, modules
\* disabled, no time service, no PAM file, no GDM, no NOPASSWD entry
BareHostRest ==
    << check_world_writable_files(Quiet(<<>>)).res,
       check_unused_filesystems([m \in DOMAIN disabled_modules |-> Quiet(<<"install", "/bin/true">>)],
                                [m \in DOMAIN disabled_modules |-> Quiet(<<>>)]).res,
       check_time_sync(Quiet(<<"inactive">>), Quiet(<<"inactive">>)).res,
       check_password_policies(FALSE, Quiet(<<>>)).res,
       check_gdm_autologin_disabled(FALSE, Quiet(<<>>)).res,
       check_sudo_nopasswd(Quiet(<<>>)).res >>

\* what run_all_checks returns on that host
BareHostRun == BareHostChecks \o BareHostRest

ScanTimesOut ==
    /\ agent_pc = "check_world_writable_files"
    /\ Evaluated(check_world_writable_files(TimedOut))

InitPipe ==
    /\ agent_pc = "check_world_writable_files"
    /\ checks = BareHostChecks
    /\ last_probe = "none"
    /\ ingest_url = "api_gateway"
    /\ IngestIdle
    /\ BackendIdle
    /\ report = <<>>

NextPipe ==
    \/ ScanTimesOut
    \/ RunUnusedFilesystems
    \/ RunTimeSync
    \/ RunPasswordPolicies
    \/ RunGdmAutologinDisabled
    \/ RunSudoNopasswd
    \/ main
    \/ \E scan \in Answers : get_cis_results(scan)

SpecPipe == InitPipe /\ [][NextPipe]_vars

\* Ingests of three hosts in any order, and listings of the hosts
ListHostnames == {"app", "db", "web"}

ListBodies == {Body(h, pk, <<>>) : h \in ListHostnames, pk \in PackageLists}

ListIngestLambda ==
    \E body \in ListBodies, lookup \in Answers, put \in Answers :
        lambda_handler([body |-> body, sourceIp |-> "10.0.0.1"], lookup, put, clock)

ListIngestBackend == \E body \in ListBodies : ingest_data(body)

NextList ==
    \/ ListIngestLambda
    \/ ListIngestBackend
    \/ \E scan \in Answers : get_hosts_lambda(scan)
    \/ get_hosts

SpecList == Init /\ [][NextList]_vars

\* Ingests of host "web" over time, and lookups of "web" and of "db", which
\* is never ingested
LookupBodies ==
    { Body("web", <<>>, <<>>),
      Body("web", <<[name |-> "bash", version |-> "5.1"]>>,
           <<Result("CIS A", "pass", <<"evidence">>)>>),
      Body("web", <<>>, <<Result("CIS A", "skipped", <<"evidence">>),
                          Result("CIS B", "pass", <<"evidence">>)>>),
      Body("", <<>>, <<>>) }

LookupIngestEvents == {[body |-> b, sourceIp |-> "10.0.0.1"] : b \in LookupBodies}

LookupEvents ==
    {[pathParameters |-> [hostname |-> h]] : h \in {"web", "db"}} \cup {[path |-> "/hosts"]}

LookupIngestLambda ==
    \E event \in LookupIngestEvents, lookup \in Answers, put \in Answers :
        lambda_handler(event, lookup, put, clock)

LookupIngestBackend == \E body \in LookupBodies : ingest_data(body)

NextLookup ==
    \/ Tick
    \/ LookupIngestLambda
    \/ LookupIngestBackend
    \/ \E event \in LookupEvents, get \in Answers : get_host_details(event, get)
    \/ \E hostname \in {"web", "db"} : get_host_data(hostname)

SpecLookup == Init /\ [][NextLookup]_vars

(***************************************************************************)
(* Properties                                                              *)
(***************************************************************************)
\* C1: run_all_checks never raises, whatever the commands do, and returns
\* the ten catalog results in catalog order.
C1_RunAllChecksCompletes ==
    /\ agent_pc # "raised"
    /\ agent_pc = "done" =>
          /\ Len(checks) = Len(Catalog)
          /\ \A i \in DOMAIN checks : checks[i].check \in CatalogNames[i]

\* C2: a rule whose command primitive returned no stdout (timeout or
\* exception) for every command it ran reports "fail", never "pass".
C2_FaultedProbeFails ==
    (last_probe = "all" /\ agent_pc # "raised" /\ checks # <<>>)
        => checks[Len(checks)].status = "fail"

\* the results stored for a host, and those of them with a given status
StoredResults(h) == table[h].data.cis_results
StoredWithStatus(h, st) ==
    {i \in DOMAIN StoredResults(h) :
        "status" \in DOMAIN StoredResults(h)[i] /\ StoredResults(h)[i].status = st}

\* C3: the stored security_score is an integer in 0..100, 0 when there are no
\* checks and otherwise floor(passed_checks * 100 / total_checks).
C3_ScoreIsFloorOfPercentage ==
    \A h \in DOMAIN table :
        LET passed == Cardinality(StoredWithStatus(h, "pass"))
            total == Len(StoredResults(h))
            score == table[h].metrics.security_score
        IN  /\ score \in 0..100
            /\ total = 0 => score = 0
            /\ total > 0 => score = (passed * 100) \div total

\* C4: every stored record has passed_checks <= total_checks, total_checks
\* equal to the number of its stored results whatever their status, and
\* passed_checks equal to the number of them whose status is "pass".
C4_MetricsMatchResults ==
    \A h \in DOMAIN table :
        LET m == table[h].metrics IN
        /\ m.passed_checks <= m.total_checks
        /\ m.total_checks = Len(StoredResults(h))
        /\ m.passed_checks = Cardinality(StoredWithStatus(h, "pass"))

\* a stored record with a result that passed and one that was neither passed nor failed
C4_Witness ==
    \E h \in DOMAIN table :
        /\ table[h].metrics.total_checks = 2
        /\ table[h].metrics.passed_checks = 1
        /\ StoredWithStatus(h, "skipped") # {}

\* C5: with ingests run one after another, first_seen of a stored record never
\* changes, whatever the existence lookup of a later ingest answers.
C5_FirstSeenNeverChanges ==
    [][\A h \in DOMAIN table :
          /\ h \in DOMAIN table'
          /\ table'[h].metadata.first_seen = table[h].metadata.first_seen]_vars

\* C6: with overlapping ingests, no write replaces last_seen or updated_at of
\* a host by a smaller value.
C6_LastSeenNeverDecreases ==
    [][\A h \in DOMAIN table :
          /\ table'[h].metadata.last_seen >= table[h].metadata.last_seen
          /\ table'[h].metadata.updated_at >= table[h].metadata.updated_at]_vars

\* C7: an ingest of the payload already stored for a host (same host_details,
\* packages, results and agent_version) changes nothing of the record but
\* last_seen and updated_at.
C7_ReingestChangesTimestampsOnly ==
    [][\A h \in DOMAIN table :
          (/\ response' = Response(200, h)
           /\ table'[h].data = table[h].data
           /\ table'[h].metadata.agent_version = table[h].metadata.agent_version)
          => table'[h] = [table[h] EXCEPT !.metadata.last_seen = table'[h].metadata.last_seen,
                                          !.metadata.updated_at = table'[h].metadata.updated_at]
      ]_vars

\* C8: neither entry point stores a record for a missing or empty hostname, and
\* a request rejected as invalid leaves the store as it was.
C8_NoHostnameIsRejected ==
    [][/\ \A h \in DOMAIN table' \cup DOMAIN DB' : h # ""
       /\ response' = Response(400, "") => table' = table
       /\ backend_status' = 422 => DB' = DB]_vars

\* all results of the table, as <<hostname, index>>, and their names and statuses
AllResults == {<<h, i>> : h \in DOMAIN table, i \in 1..MaxChecks} \cap
              UNION {{<<h, i>> : i \in DOMAIN StoredResults(h)} : h \in DOMAIN table}
NameOf(x) == Get(StoredResults(x[1])[x[2]], "check", "Unknown")
StatusOf(x) == Get(StoredResults(x[1])[x[2]], "status", "unknown")
Counted(name, st) == Cardinality({x \in AllResults : NameOf(x) = name /\ StatusOf(x) = st})

Aggregated == report # <<>> /\ report[1].statusCode = 200

\* C9: the aggregation counts every result once: total_checks is the number of
\* results, total_passed those with status "pass", total_failed those with
\* "fail", each check's pass_count and fail_count and failed_hosts count its
\* "pass" and "fail" results only, and total_passed + total_failed equals
\* total_checks exactly when no result has another status.
C9_EveryResultCountedOnce ==
    Aggregated =>
        LET r == report[1]
            others == {x \in AllResults : StatusOf(x) \notin {"pass", "fail"}}
        IN  /\ r.summary.total_checks = Cardinality(AllResults)
            /\ r.summary.total_passed = Cardinality({x \in AllResults : StatusOf(x) = "pass"})
            /\ r.summary.total_failed = Cardinality({x \in AllResults : StatusOf(x) = "fail"})
            /\ \A k \in DOMAIN r.checks :
                  /\ r.checks[k].pass_count = Counted(r.checks[k].check_name, "pass")
                  /\ r.checks[k].fail_count = Counted(r.checks[k].check_name, "fail")
                  /\ Len(r.checks[k].failed_hosts) = Counted(r.checks[k].check_name, "fail")
            /\ r.summary.total_passed + r.summary.total_failed <= r.summary.total_checks
            /\ (r.summary.total_passed + r.summary.total_failed = r.summary.total_checks)
                  <=> others = {}

\* a report over results that passed, failed and did neither
C9_Witness ==
    /\ Aggregated
    /\ report[1].summary.total_passed > 0
    /\ report[1].summary.total_failed > 0
    /\ report[1].summary.total_checks
          > report[1].summary.total_passed + report[1].summary.total_failed

\* C10: for every entry of the checks list, pass_count + fail_count is at most
\* the number of hosts whose results contain that check name.
C10_CountsBoundedByHosts ==
    Aggregated =>
        \A k \in DOMAIN report[1].checks :
            LET c == report[1].checks[k] IN
            c.pass_count + c.fail_count
                <= Cardinality({h \in DOMAIN table :
                                  \E x \in AllResults : x[1] = h /\ NameOf(x) = c.check_name})

\* count / total * 100 rounded to the nearest hundredth (a tie goes to the even
\* hundredth, as Python's round does), in hundredths
NearestHundredth(count, total) ==
    LET q == (10000 * count) \div total
        r == (10000 * count) % total
    IN  IF 2 * r > total \/ (2 * r = total /\ q % 2 = 1) THEN q + 1 ELSE q

\* C11: every entry of the checks list has pass_rate in [0, 100], equal to
\* pass_count / (pass_count + fail_count) * 100 rounded to two decimals when
\* the entry counts a result, and 0 when it counts none.
C11_PassRateRounded ==
    Aggregated =>
        \A k \in DOMAIN report[1].checks :
            LET c == report[1].checks[k]
                total == c.pass_count + c.fail_count
            IN  /\ c.pass_rate \in 0..10000
                /\ total > 0 => c.pass_rate = NearestHundredth(c.pass_count, total)
                /\ total = 0 => c.pass_rate = 0

\* an entry whose exact rate, 1 of 32 = 3.125, lies halfway between two hundredths
C11_Witness ==
    /\ Aggregated
    /\ \E k \in DOMAIN report[1].checks :
          /\ report[1].checks[k].pass_count = 1
          /\ report[1].checks[k].fail_count = 31
          /\ report[1].checks[k].pass_rate = 312

\* the results in the order the aggregation met them, and where it first met a name
ScannedResults == Flatten(report[1].scanned)
ScannedName(i) == Get(ScannedResults[i].result, "check", "Unknown")
FirstEncounter(name) ==
    CHOOSE i \in DOMAIN ScannedResults :
        /\ ScannedName(i) = name
        /\ \A j \in 1..(i - 1) : ScannedName(j) # name

\* C12: the checks list is non-decreasing in pass_rate, and entries with equal
\* pass_rate are in the order in which their names were first met in the scan,
\* whatever the status of the result that first carried the name.
C12_SortedStableByFirstEncounter ==
    Aggregated =>
        \A k, l \in DOMAIN report[1].checks :
            k < l =>
                LET a == report[1].checks[k]
                    b == report[1].checks[l]
                IN  /\ a.pass_rate <= b.pass_rate
                    /\ a.pass_rate = b.pass_rate =>
                          FirstEncounter(a.check_name) < FirstEncounter(b.check_name)

\* C13: critical_checks is the prefix of the sorted checks list made of the
\* entries with pass_rate strictly below 50 (an entry at exactly 50.00 is not
\* critical), and top_failing_checks is the first min(5, n) entries of it.
C13_CriticalPrefixAndTopFive ==
    Aggregated =>
        LET all == report[1].checks
            n == Len(all)
            m == Cardinality({k \in DOMAIN all : all[k].pass_rate < 5000})
        IN  /\ \A k \in DOMAIN all : all[k].pass_rate < 5000 <=> k <= m
            /\ report[1].critical_checks = SubSeq(all, 1, m)
            /\ \A k \in DOMAIN report[1].critical_checks :
                  report[1].critical_checks[k].pass_rate # 5000
            /\ report[1].top_failing_checks = SubSeq(all, 1, IF n < 5 THEN n ELSE 5)

\* a report of more than five checks, one of them passed by one host of two
C13_Witness ==
    /\ Aggregated
    /\ Len(report[1].checks) > 5
    /\ Len(report[1].top_failing_checks) = 5
    /\ report[1].critical_checks # <<>>
    /\ \E k \in DOMAIN report[1].checks :
          /\ report[1].checks[k].pass_count = 1
          /\ report[1].checks[k].fail_count = 1
          /\ report[1].checks[k].pass_rate = 5000

\* C14: overall_pass_rate is total_passed / total_checks * 100 rounded to two
\* decimals, total_checks being the number of all stored results whatever
\* their status, and 0 when there is no result.
C14_OverallPassRate ==
    Aggregated =>
        LET total == Cardinality(AllResults)
            passed == Cardinality({x \in AllResults : StatusOf(x) = "pass"})
            rate == report[1].summary.overall_pass_rate
        IN  /\ total > 0 => rate = NearestHundredth(passed, total)
            /\ total = 0 => rate = 0

\* a fleet with one passed, one failed and one skipped result: 33.33, not 50
C14_Witness ==
    /\ Aggregated
    /\ report[1].summary.total_passed = 1
    /\ report[1].summary.total_failed = 1
    /\ report[1].summary.total_checks = 3
    /\ report[1].summary.overall_pass_rate = 3333

\* C15: aggregating an empty store succeeds, and the summary it yields has
\* total_hosts, total_checks, total_passed, total_failed and overall_pass_rate
\* 0 and empty checks, critical_checks and top_failing_checks lists.
C15_EmptyStoreAggregates ==
    table = EmptyDict =>
        /\ ENABLED (get_cis_results("ok") /\ report'[1].statusCode = 200)
        /\ Aggregated =>
              /\ report[1].summary = [total_hosts |-> 0, total_checks |-> 0,
                                       total_passed |-> 0, total_failed |-> 0,
                                       overall_pass_rate |-> 0]
              /\ report[1].checks = <<>>
              /\ report[1].critical_checks = <<>>
              /\ report[1].top_failing_checks = <<>>

\* the summary of the empty store
C15_Witness ==
    /\ table = EmptyDict
    /\ Aggregated
    /\ report[1].summary.total_hosts = 0

TimedOutEvidence(evidence) ==
    \E i \in 1..(Len(evidence) - 1) : evidence[i] = "timed" /\ evidence[i + 1] = "out"

IsTimedOutScan(r) ==
    /\ r.check = "CIS 6.1.4 World-Writable Files"
    /\ r.status = "fail"
    /\ TimedOutEvidence(r.evidence)

\* C16: when the filesystem scan exceeds its budget, the fifth result of the
\* run is a 'fail' of the world-writable-files rule with evidence containing
\* "timed out"; the record ingested from that run counts it in total_checks and
\* not in passed_checks; and the fleet report over that record counts it in
\* total_checks, in total_failed and as the one failure of its check.
C16_ScanTimeoutCountsAsFailure ==
    /\ Len(checks) >= 5 => IsTimedOutScan(checks[5])
    /\ \A h \in DOMAIN table :
          /\ IsTimedOutScan(StoredResults(h)[5])
          /\ table[h].metrics.total_checks = Len(Catalog)
          /\ table[h].metrics.passed_checks
                = Cardinality(StoredWithStatus(h, "pass") \ {5})
    /\ (Aggregated /\ report[1].scanned # <<>>) =>
          LET rs == report[1].scanned[1].data.cis_results
              fails == {i \in DOMAIN rs : rs[i].status = "fail"}
          IN  /\ report[1].summary.total_checks = Len(Catalog)
              /\ 5 \in fails
              /\ report[1].summary.total_failed = Cardinality(fails)
              /\ \E k \in DOMAIN report[1].checks :
                    /\ report[1].checks[k].check_name = "CIS 6.1.4 World-Writable Files"
                    /\ report[1].checks[k].pass_count = 0
                    /\ report[1].checks[k].fail_count = 1
                    /\ report[1].checks[k].failed_hosts
                          = <<[hostname |-> "web", evidence |-> rs[5].evidence]>>

\* a fleet report over the record of a run whose scan timed out
C16_Witness ==
    /\ Aggregated
    /\ report[1].scanned # <<>>
    /\ IsTimedOutScan(report[1].scanned[1].data.cis_results[5])
    /\ report[1].summary.total_failed >= 5
    /\ report[1].summary.total_passed >= 1

\* one entry per element of names, in ascending str order
ListsAscending(listed, names) ==
    /\ {listed[i] : i \in DOMAIN listed} = names
    /\ \A i, j \in DOMAIN listed : i < j => StrRank(listed[i]) < StrRank(listed[j])

\* C17: every listing of the hosts, by the get-hosts Lambda and by the
\* backend's GET /api/hosts in local mode, has one entry per stored hostname,
\* in ascending hostname order.
C17_ListingsSortedByHostname ==
    [][/\ get_hosts_lambda("ok") =>
            ListsAscending([i \in DOMAIN report'[1].hosts |-> report'[1].hosts[i].hostname],
                           DOMAIN table)
       /\ get_hosts => ListsAscending(report'[1].hosts, DOMAIN DB)]_vars

\* the record of a payload: its three parts as sent, and the metrics counted
\* from them alone
HoldsPayloadOf(item, body) ==
    /\ item.hostname = body.host_details.hostname
    /\ item.data = [host_details |-> body.host_details,
                    installed_packages |-> body.installed_packages,
                    cis_results |-> body.cis_results]
    /\ item.metrics.total_checks = Len(body.cis_results)
    /\ item.metrics.passed_checks
          = Cardinality({i \in DOMAIN body.cis_results : body.cis_results[i].status = "pass"})
    /\ item.metrics.total_packages = Len(body.installed_packages)
    /\ item.metrics.security_score
          = IF body.cis_results = <<>> THEN 0
            ELSE (item.metrics.passed_checks * 100) \div Len(body.cis_results)

\* C18: an ingest that succeeds replaces the record of its hostname by the
\* record of its payload alone and touches no other record, any other ingest
\* leaves the table as it was, and a lookup answers 404 exactly for a
\* hostname without a record and otherwise returns the parts and metrics of
\* the record; so a lookup returns the most recent successful ingest.
C18_LookupReturnsLatestIngest ==
    [][/\ \A event \in LookupIngestEvents, lookup \in Answers, put \in Answers :
            lambda_handler(event, lookup, put, clock) =>
                IF ValidationError(event) = "" /\ put = "ok"
                THEN LET h == event.body.host_details.hostname IN
                     /\ DOMAIN table' = DOMAIN table \cup {h}
                     /\ HoldsPayloadOf(table'[h], event.body)
                     /\ \A g \in DOMAIN table \ {h} : table'[g] = table[g]
                ELSE table' = table
       /\ \A h \in {"web", "db"} :
            get_host_details([pathParameters |-> [hostname |-> h]], "ok") =>
                IF h \notin DOMAIN table
                THEN report'[1].statusCode = 404
                ELSE /\ report'[1].statusCode = 200
                     /\ report'[1].hostname = h
                     /\ report'[1].host_details = table[h].data.host_details
                     /\ report'[1].installed_packages = table[h].data.installed_packages
                     /\ report'[1].cis_results = table[h].data.cis_results
                     /\ report'[1].metrics = table[h].metrics]_vars

\* a lookup of a host whose record has been replaced by a later ingest
C18_Witness ==
    /\ report # <<>>
    /\ report[1].statusCode = 200
    /\ "metadata" \in DOMAIN report[1]
    /\ report[1].metadata.first_seen < report[1].metadata.last_seen
    /\ Len(report[1].cis_results) = 2
    /\ report[1].metrics.passed_checks = 1
    /\ report[1].installed_packages = <<>>

\* C19: every rule reports under one check identifier on every host: each
\* result of a run carries the same 'check' string as the result of the same
\* rule on another host (one where the first four rules fail), whether the
\* rule passes or fails.
C19_OneCheckNamePerRule ==
    \A i \in DOMAIN checks : checks[i].check = BareHostRun[i].check

\* C20: the checks list has exactly one entry per check name that occurs in
\* the stored results, and the entry of a name none of whose results is a
\* 'pass' or a 'fail' has pass_count 0, fail_count 0 and pass_rate 0.
C20_OneEntryPerCheckName ==
    Aggregated =>
        LET all == report[1].checks
            names == {NameOf(x) : x \in AllResults}
        IN  /\ {all[k].check_name : k \in DOMAIN all} = names
            /\ Len(all) = Cardinality(names)
            /\ \A k \in DOMAIN all :
                  (Counted(all[k].check_name, "pass") = 0
                     /\ Counted(all[k].check_name, "fail") = 0)
                  => /\ all[k].pass_count = 0
                     /\ all[k].fail_count = 0
                     /\ all[k].pass_rate = 0

\* C21: with overlapping ingests of one hostname whose existence lookups all
\* answer, no write changes first_seen of a record already stored for that
\* hostname, in any interleaving of the lookups and the writes.
C21_FirstSeenStableUnderOverlap ==
    [][\A i \in Invocations :
          LET hostname == inv[i].event.body.host_details.hostname
          IN  (inv[i].pc = "put" /\ inv'[i].pc = "idle" /\ hostname \in DOMAIN table)
                  => table'[hostname].metadata.first_seen
                        = table[hostname].metadata.first_seen]_vars

\* the value a PermitRootLogin line printed by the grep sets ("" when no line)
PermitRootLoginValue(out) == IF Len(out) >= 2 THEN LowerTok(out[2]) ELSE ""

\* C22: when the grep of the SSH daemon config completes, the root-login
\* rule reports "fail" exactly when the config file is absent or the
\* PermitRootLogin directive is set to yes in any letter case, and "pass"
\* otherwise.
C22_RootLoginFailsExactlyOnYes ==
    [][\A exists \in BOOLEAN, out \in RootGrepOuts :
          (agent_pc = "check_root_login"
              /\ Evaluated(check_root_login(exists, Completed(out, <<>>))))
          => checks'[Len(checks')].status =
                IF ~exists \/ PermitRootLoginValue(out) = "yes" THEN "fail" ELSE "pass"]_vars

\* the sum of a sequence of numbers
RECURSIVE SumSeq(_)
SumSeq(seq) == IF seq = <<>> THEN 0 ELSE seq[1] + SumSeq(Tail(seq))

\* the failing results of a check, in the order the scan met them
FailingOf(name) ==
    SelectSeq(ScannedResults,
              LAMBDA x : /\ Get(x.result, "check", "Unknown") = name
                         /\ Get(x.result, "status", "unknown") = "fail")

\* C23: in every fleet summary the pass_count of the checks entries sum to
\* total_passed, their fail_count sum to total_failed, and each entry's
\* failed_hosts has fail_count elements: the host and evidence of each failing
\* result of that check, in the order the scan met them.
C23_PerCheckStatsMatchTotals ==
    Aggregated =>
        LET r == report[1] IN
        /\ SumSeq([k \in DOMAIN r.checks |-> r.checks[k].pass_count]) = r.summary.total_passed
        /\ SumSeq([k \in DOMAIN r.checks |-> r.checks[k].fail_count]) = r.summary.total_failed
        /\ \A k \in DOMAIN r.checks :
              LET c == r.checks[k]
                  failing == FailingOf(c.check_name)
              IN  /\ Len(c.failed_hosts) = c.fail_count
                  /\ c.failed_hosts =
                        [i \in DOMAIN failing |->
                            [hostname |-> failing[i].hostname,
                             evidence |-> Get(failing[i].result, "evidence",
                                              <<"No evidence">>)]]

\* a summary with two checks entries, one of which failed on two different
\* hosts, and with a passed result
C23_Witness ==
    /\ Aggregated
    /\ Len(report[1].checks) = 2
    /\ report[1].summary.total_passed = 1
    /\ report[1].summary.total_failed = 2
    /\ \E k \in DOMAIN report[1].checks :
          /\ Len(report[1].checks[k].failed_hosts) = 2
          /\ report[1].checks[k].failed_hosts[1].hostname
                # report[1].checks[k].failed_hosts[2].hostname

====
